---- MODULE Spec2Model ----
(***************************************************************************)
(* A model of the ruleforge-be semantic indexing service (QdrantService,   *)
(* the variables API that feeds it) and of the rule extraction engine      *)
(* (RuleGenerator and the generate-rules endpoint).                        *)
(*                                                                         *)
(* Strings whose content the code inspects are sequences of one-character  *)
(* strings.  The vector store and the relational table are remote systems: *)
(* each call to them either succeeds or raises, chosen by the environment. *)
(***************************************************************************)
EXTENDS Integers, Sequences, FiniteSets, TLC

VARIABLES
    client,           \* QdrantService.client is set (not None)
    embedding_model,  \* QdrantService.embedding_model is set (not None)
    db,               \* the relational table of the behaviour: the Variable
                      \* rows by variable_code, or the rows of Document
    index,            \* the Qdrant collection: its points or, where the
                      \* collection is provisioned, whether it exists and
                      \* the payload indexes it has
    next_id,          \* the next fresh point id (uuid4 never repeats)
    ret,              \* what the last operation returned to its caller
    log,              \* the remote calls the last operation logged as failed
    call              \* the arguments of the call under way and, where calls
                      \* are compared, an earlier call with what it returned;
                      \* in the step-by-step behaviours the statement each
                      \* handler or process is at and its local variables

vars == <<client, embedding_model, db, index, next_id, ret, log, call>>

----------------------------------------------------------------------------
(* Bounds of the model *)

\* point ids that may be handed out in one behaviour
MaxPoints == 3

\* points in the index when a single call is made on it
MaxIndexed == 3

\* variable codes of the catalog, in the order the table returns its rows
CodeOrder == <<"X", "Y">>
Codes == {CodeOrder[i] : i \in 1..Len(CodeOrder)}

\* document ids that may be indexed
DocumentIds == {"d1"}

----------------------------------------------------------------------------
(* Field values: a column is NULL (Python None) or a string *)

None == [null |-> TRUE, s |-> <<>>]
S(chars) == [null |-> FALSE, s |-> chars]

\* f"{value}": None is formatted as the text None
Str(v) == IF v.null THEN <<"N", "o", "n", "e">> ELSE v.s

\* str.strip() removes leading and trailing whitespace
RECURSIVE lstrip(_)
lstrip(s) == IF s # <<>> /\ Head(s) = " " THEN lstrip(Tail(s)) ELSE s

RECURSIVE rstrip(_)
rstrip(s) ==
    IF s # <<>> /\ s[Len(s)] = " " THEN rstrip(SubSeq(s, 1, Len(s) - 1)) ELSE s

strip(s) == rstrip(lstrip(s))

\* the descriptive fields a record may carry: (variable_name,
\* variable_description, des_var_eng)
Fields(n, d, e) ==
    [variable_name |-> n, variable_description |-> d, des_var_eng |-> e]

FieldValues ==
    { Fields(S(<<"a">>), None, None),             \* a name, optional fields unset
      Fields(S(<<>>), S(<<" ">>), S(<<>>)),       \* empty strings and whitespace
      Fields(S(<<>>), None, None) }               \* empty name, NULL columns

\* a table slot without a row
NoRow == [present |-> FALSE, fields |-> Fields(None, None, None)]
Row(f) == [present |-> TRUE, fields |-> f]

\* the rows of the table as db.query(Variable).all() returns them
RECURSIVE RowsFrom(_, _)
RowsFrom(table, i) ==
    IF i > Len(CodeOrder) THEN <<>>
    ELSE LET c == CodeOrder[i] IN
         IF table[c].present
         THEN <<[variable_code |-> c] @@ table[c].fields>> \o RowsFrom(table, i + 1)
         ELSE RowsFrom(table, i + 1)

db_variables(table) == RowsFrom(table, 1)

----------------------------------------------------------------------------
(* QdrantService: construction *)

\* the guard at the head of every public operation
Available == client /\ embedding_model

\* the states _initialize_client can leave the service in
InitializeOutcomes ==
    { <<FALSE, FALSE>>,   \* no api key, no sentence-transformers, or QdrantClient raised
      <<TRUE, FALSE>>,    \* SentenceTransformer(...) raised after the client was set
      <<TRUE, TRUE>> }

----------------------------------------------------------------------------
(* QdrantService.add_variables *)

searchable_text(var) ==
    Str(var.variable_name) \o <<" ">> \o Str(var.variable_description)
        \o <<" ">> \o Str(var.des_var_eng)

VariablePoint(id, var) ==
    [id |-> id, type |-> "variable", variable_code |-> var.variable_code,
     document_id |-> "", fields |-> Fields(var.variable_name,
                                           var.variable_description,
                                           var.des_var_eng)]

\* the loop that builds one point per variable with non-blank searchable text
RECURSIVE BuildPoints(_, _)
BuildPoints(variables, id) ==
    IF variables = <<>> THEN {}
    ELSE LET var == Head(variables) IN
         IF strip(searchable_text(var)) = <<>>
         THEN BuildPoints(Tail(variables), id)
         ELSE {VariablePoint(id, var)} \cup BuildPoints(Tail(variables), id + 1)

\* add_variables with a guard that tests the client alone, as the guard of
\* _get_existing_variable_codes does
add_variables_client_only(idx, id, variables, upsertOk) ==
    IF ~client THEN [ok |-> FALSE, index |-> idx, next_id |-> id, log |-> {}]
    ELSE LET points == BuildPoints(variables, id) IN
         IF points = {}
         THEN [ok |-> FALSE, index |-> idx, next_id |-> id, log |-> {}]
         ELSE [ok |-> TRUE, index |-> idx \cup points,
               next_id |-> id + Cardinality(points), log |-> {}]

\* add_variables on index idx: its return value, the index and the id counter
\* afterwards, and the failure it logged.  upsertOk: the upsert does not raise
add_variables(idx, id, variables, upsertOk) ==
    IF ~Available THEN [ok |-> FALSE, index |-> idx, next_id |-> id, log |-> {}]
    ELSE LET points == BuildPoints(variables, id) IN
         IF points = {}
         THEN [ok |-> FALSE, index |-> idx, next_id |-> id, log |-> {}]
         ELSE IF upsertOk
         THEN [ok |-> TRUE, index |-> idx \cup points,
               next_id |-> id + Cardinality(points), log |-> {}]
         ELSE [ok |-> FALSE, index |-> idx, next_id |-> id, log |-> {"upsert"}]

----------------------------------------------------------------------------
(* What an operation hands back to its caller *)

Result(op) ==
    [op |-> op, success |-> FALSE, has_counts |-> FALSE, synced_count |-> 0,
     skipped_count |-> 0, total_db_variables |-> 0, added |-> FALSE,
     status |-> 0, results |-> <<>>, raised |-> FALSE]

SyncResult(success, synced, skipped, total) ==
    [Result("sync") EXCEPT !.success = success, !.has_counts = TRUE,
                          !.synced_count = synced, !.skipped_count = skipped,
                          !.total_db_variables = total]

----------------------------------------------------------------------------
(* QdrantService: scroll, sync, force resync *)

\* the page size given to client.scroll
ScrollLimit == 10000

\* a scroll that answers no point
ScrollNothing(idx) == {}

\* a scroll without the filter on type
ScrollEveryType(idx) == idx

\* client.scroll with the filter type = variable: one page of at most
\* ScrollLimit points
ScrollVariables(idx) ==
    LET vs == {p \in idx : p.type = "variable"} IN
    IF Cardinality(vs) <= ScrollLimit THEN vs
    ELSE CHOOSE page \in SUBSET vs : Cardinality(page) = ScrollLimit

\* _get_existing_variable_codes finding no code, whatever is indexed
NoExistingCodes(idx, scrollOk) == {}

\* scrollOk: the scroll call does not raise
_get_existing_variable_codes(idx, scrollOk) ==
    IF ~client \/ ~scrollOk THEN {}
    ELSE {p.variable_code : p \in {q \in ScrollVariables(idx) : q.variable_code # ""}}

\* the delete step of a force resync that deletes nothing
DeleteNothing(idx, scrollOk, deleteOk) == [index |-> idx, log |-> {}]

\* scrollOk, deleteOk: the scroll and the delete call do not raise
_delete_all_variables_from_qdrant(idx, scrollOk, deleteOk) ==
    IF ~client THEN [index |-> idx, log |-> {}]
    ELSE IF ~scrollOk THEN [index |-> idx, log |-> {"delete_scroll"}]
    ELSE LET point_ids == {p.id : p \in ScrollVariables(idx)} IN
         IF point_ids = {} THEN [index |-> idx, log |-> {}]
         ELSE IF deleteOk
         THEN [index |-> {p \in idx : p.id \notin point_ids}, log |-> {}]
         ELSE [index |-> idx, log |-> {"delete"}]

\* sync_variables_from_database on index idx with id counter id and table
\* `table`.  dbOk: the table query does not raise
sync_variables_from_database(idx, id, table, dbOk, scrollOk, upsertOk) ==
    IF ~Available
    THEN [ret |-> SyncResult(FALSE, 0, 0, 0), index |-> idx, next_id |-> id,
          log |-> {}]
    ELSE IF ~dbOk
    THEN [ret |-> SyncResult(FALSE, 0, 0, 0), index |-> idx, next_id |-> id,
          log |-> {"query"}]
    ELSE
      LET rows == db_variables(table)
          total_db_variables == Len(rows)
      IN
      IF total_db_variables = 0
      THEN [ret |-> SyncResult(TRUE, 0, 0, 0), index |-> idx, next_id |-> id,
            log |-> {}]
      ELSE
        LET existing_variable_codes == _get_existing_variable_codes(idx, scrollOk)
            variables_to_sync ==
                SelectSeq(rows, LAMBDA r : r.variable_code \notin existing_variable_codes)
            skipped_count == Len(rows) - Len(variables_to_sync)
            added ==
                IF variables_to_sync # <<>>
                THEN add_variables(idx, id, variables_to_sync, upsertOk)
                ELSE [ok |-> FALSE, index |-> idx, next_id |-> id, log |-> {}]
            synced_count == IF added.ok THEN Len(variables_to_sync) ELSE 0
        IN
        [ret |-> SyncResult(TRUE, synced_count, skipped_count, total_db_variables),
         index |-> added.index, next_id |-> added.next_id,
         log |-> (IF scrollOk THEN {} ELSE {"scroll"}) \cup added.log]

force_resync_all_variables(idx, id, table, delScrollOk, deleteOk, dbOk, scrollOk, upsertOk) ==
    IF ~Available
    THEN [ret |-> Result("force_resync"), index |-> idx, next_id |-> id, log |-> {}]
    ELSE
      LET emptied == _delete_all_variables_from_qdrant(idx, delScrollOk, deleteOk)
          result == sync_variables_from_database(emptied.index, id, table, dbOk,
                                                 scrollOk, upsertOk)
      IN [result EXCEPT !.ret.op = "force_resync", !.log = emptied.log \cup @]

----------------------------------------------------------------------------
(* QdrantService.add_document *)

DocumentPoint(id, document_id) ==
    [id |-> id, type |-> "document", variable_code |-> "",
     document_id |-> document_id, fields |-> Fields(None, None, None)]

add_document(idx, id, document_id, upsertOk) ==
    IF ~Available THEN [ok |-> FALSE, index |-> idx, next_id |-> id, log |-> {}]
    ELSE IF ~upsertOk
    THEN [ok |-> FALSE, index |-> idx, next_id |-> id, log |-> {"upsert"}]
    ELSE [ok |-> TRUE, index |-> idx \cup {DocumentPoint(id, document_id)},
          next_id |-> id + 1, log |-> {}]

----------------------------------------------------------------------------
(* QdrantService.semantic_search *)

\* similarity scores and thresholds, in steps of the score scale
MaxScore == 2
Scores == 0..MaxScore

\* the largest limit a caller passes
MaxLimit == 2

\* the values of the filter_type argument: None, the empty string, and types
NoFilter == "None"
FilterTypes == {NoFilter, "", "variable", "document"}

\* `if filter_type:` is false for None and for the empty string
Truthy(filter_type) == filter_type # NoFilter /\ filter_type # ""

\* the text a point's vector was embedded from: equal texts give equal vectors
VectorOf(p) == <<p.type, p.document_id, p.fields>>
Vectors(idx) == {VectorOf(p) : p \in idx}

Min(a, b) == IF a <= b THEN a ELSE b

Hit(p, sc) == [id |-> p.id, score |-> sc[VectorOf(p)], type |-> p.type]

\* client.search: every list the store may answer: the points passing the
\* filter with a score of at least the threshold, best first, cut at limit
\* (ties in any order).  sc gives the query's score against each vector
BackendSearch(idx, sc, limit, score_threshold, query_filter) ==
    LET cands == {Hit(p, sc) : p \in
                    {q \in idx : /\ sc[VectorOf(q)] >= score_threshold
                                 /\ (query_filter = NoFilter \/ q.type = query_filter)}}
        n == Min(limit, Cardinality(cands))
    IN { s \in [1..n -> cands] :
           /\ \A i, j \in 1..n : i < j => s[i] # s[j] /\ s[i].score >= s[j].score
           /\ \A c \in cands : (\A i \in 1..n : s[i] # c) =>
                                   \A i \in 1..n : s[i].score >= c.score }

\* the first search, with the index filter
FilteredSearch(idx, sc, limit, score_threshold, filter_type) ==
    BackendSearch(idx, sc, limit, score_threshold, filter_type)

\* the second search with the score_threshold argument left out
UnfilteredSearchNoThreshold(idx, sc, limit, score_threshold) ==
    BackendSearch(idx, sc, limit, 0, NoFilter)

\* the second search, without filter
UnfilteredSearch(idx, sc, limit, score_threshold) ==
    BackendSearch(idx, sc, limit, score_threshold, NoFilter)

\* the unfiltered results handed on without the manual filtering
ManualFilterKeepsAll(search_results_no_filter, filter_type) ==
    search_results_no_filter

\* the manual filtering of the unfiltered results
ManualFilter(search_results_no_filter, filter_type) ==
    IF Truthy(filter_type)
    THEN SelectSeq(search_results_no_filter, LAMBDA r : r.type = filter_type)
    ELSE search_results_no_filter

\* semantic_search, given what the store answers: `filtered` is the answer
\* of the filtered search (used when filteredOk), `unfiltered` that of the
\* unfiltered one (used when unfilteredOk); a search that is not ok raises
semantic_search(filter_type, filteredOk, filtered, unfilteredOk, unfiltered) ==
    IF ~Available THEN [results |-> <<>>, log |-> {}]
    ELSE LET tried == Truthy(filter_type)
             search_results == IF tried /\ filteredOk THEN filtered ELSE <<>>
             filter_log == IF tried /\ ~filteredOk THEN {"filtered_search"} ELSE {}
         IN IF Len(search_results) # 0
            THEN [results |-> search_results, log |-> filter_log]
            ELSE IF ~unfilteredOk
            THEN [results |-> <<>>, log |-> filter_log \cup {"search"}]
            ELSE [results |-> ManualFilter(unfiltered, filter_type),
                  log |-> filter_log]

----------------------------------------------------------------------------
(* The variables API and the administrative operations, one after another *)

\* ids are fresh: an operation runs only while unused ids remain for it
IdsLeft(next) == next <= MaxPoints + 1

\* the outcomes of a remote call: it returns (TRUE) or raises (FALSE).  A
\* disabled service returns before it calls anything
StoreCall == IF Available THEN BOOLEAN ELSE {TRUE}

\* the arguments of a single call; NoCall: no single call is under way
NoCall ==
    [op |-> "none", limit |-> 0, score_threshold |-> 0, filter_type |-> "None",
     sc |-> <<>>, filteredOk |-> TRUE, unfilteredOk |-> TRUE, dbOk |-> TRUE,
     scrollOk |-> TRUE, upsertOk |-> TRUE, delScrollOk |-> TRUE,
     deleteOk |-> TRUE, variables |-> <<>>, document_id |-> ""]

\* POST /variables.  dbOk: the commit does not raise (variable_code is unique
\* within the catalog, so a second row with the same code is refused)
create_variable(c, f, dbOk, upsertOk) ==
    IF ~dbOk
    THEN /\ ret' = [Result("create_variable") EXCEPT !.status = 500]
         /\ log' = {"commit"}
         /\ UNCHANGED <<db, index, next_id>>
    ELSE LET added == add_variables(index, next_id,
                                    <<[variable_code |-> c] @@ f>>, upsertOk)
         IN /\ IdsLeft(added.next_id)
            /\ db' = [db EXCEPT ![c] = Row(f)]
            /\ index' = added.index
            /\ next_id' = added.next_id
            /\ log' = added.log
            /\ ret' = [Result("create_variable") EXCEPT !.status = 201,
                                                        !.added = added.ok]

CreateVariable ==
    /\ \E c \in Codes, f \in FieldValues, upsertOk \in StoreCall :
         \E dbOk \in (IF db[c].present THEN {FALSE} ELSE BOOLEAN) :
            create_variable(c, f, dbOk, upsertOk)
    /\ UNCHANGED <<client, embedding_model, call>>

\* DELETE /variables/{variable_id}: the row goes, the index is not touched
delete_variable(c) ==
    IF ~db[c].present
    THEN /\ ret' = [Result("delete_variable") EXCEPT !.status = 404]
         /\ UNCHANGED db
    ELSE /\ db' = [db EXCEPT ![c] = NoRow]
         /\ ret' = [Result("delete_variable") EXCEPT !.status = 200]

DeleteVariable ==
    /\ \E c \in Codes : delete_variable(c)
    /\ log' = {}
    /\ UNCHANGED <<client, embedding_model, index, next_id, call>>

\* POST /variables/sync-to-qdrant
SyncVariables ==
    /\ \E dbOk, scrollOk, upsertOk \in StoreCall :
         LET r == sync_variables_from_database(index, next_id, db, dbOk, scrollOk,
                                               upsertOk) IN
         /\ IdsLeft(r.next_id)
         /\ index' = r.index
         /\ next_id' = r.next_id
         /\ ret' = r.ret
         /\ log' = r.log
    /\ UNCHANGED <<client, embedding_model, db, call>>

\* POST /variables/force-resync-to-qdrant
ForceResync ==
    /\ \E delScrollOk, deleteOk, dbOk, scrollOk, upsertOk \in StoreCall :
         LET r == force_resync_all_variables(index, next_id, db, delScrollOk,
                                             deleteOk, dbOk, scrollOk, upsertOk) IN
         /\ IdsLeft(r.next_id)
         /\ index' = r.index
         /\ next_id' = r.next_id
         /\ ret' = r.ret
         /\ log' = r.log
    /\ UNCHANGED <<client, embedding_model, db, call>>

Init ==
    /\ \E o \in InitializeOutcomes : client = o[1] /\ embedding_model = o[2]
    /\ db = [c \in Codes |-> NoRow]
    /\ index = {}
    /\ next_id = 1
    /\ ret = Result("init")
    /\ log = {}
    /\ call = NoCall

Next ==
    \/ CreateVariable
    \/ DeleteVariable
    \/ SyncVariables
    \/ ForceResync

Spec == Init /\ [][Next]_vars

----------------------------------------------------------------------------
(* One operation of QdrantService on a collection and a table as earlier   *)
(* operations may have left them                                           *)

WithId(p, id) == [p EXCEPT !.id = id]

\* the payloads a point of the collection may carry
PointKinds ==
    << VariablePoint(0, [variable_code |-> "X"] @@ Fields(S(<<"a">>), None, None)),
       VariablePoint(0, [variable_code |-> "Y"] @@ Fields(S(<<"a">>), None, None)),
       VariablePoint(0, [variable_code |-> "X"] @@ Fields(S(<<>>), None, None)),
       DocumentPoint(0, "d1") >>

\* the collections of at most MaxIndexed points
ServiceIndexes ==
    UNION { { {WithId(PointKinds[g[i]], i) : i \in 1..n} :
                g \in {h \in [1..n -> 1..Len(PointKinds)] :
                         \A i, j \in 1..n : i < j => h[i] <= h[j]} } :
            n \in 0..MaxIndexed }

\* the tables of the catalog
Tables == [Codes -> {NoRow} \cup {Row(f) : f \in FieldValues}]

SearchCalls(idx) ==
    { [NoCall EXCEPT !.op = "semantic_search", !.limit = l,
                     !.score_threshold = t, !.filter_type = ft, !.sc = sc,
                     !.filteredOk = o1, !.unfilteredOk = o2] :
        l \in 1..MaxLimit, t \in Scores, ft \in FilterTypes,
        sc \in [Vectors(idx) -> Scores], o1 \in StoreCall, o2 \in StoreCall }

SyncCalls ==
    { [NoCall EXCEPT !.op = "sync", !.dbOk = o1, !.scrollOk = o2,
                     !.upsertOk = o3] :
        o1 \in StoreCall, o2 \in StoreCall, o3 \in StoreCall }

ForceResyncCalls ==
    { [c EXCEPT !.op = "force_resync", !.delScrollOk = o1, !.deleteOk = o2] :
        c \in SyncCalls, o1 \in StoreCall, o2 \in StoreCall }

AddVariablesCalls ==
    { [NoCall EXCEPT !.op = "add_variables", !.variables = db_variables(t),
                     !.upsertOk = o] : t \in Tables, o \in StoreCall }

AddDocumentCalls ==
    { [NoCall EXCEPT !.op = "add_document", !.document_id = d, !.upsertOk = o] :
        d \in DocumentIds, o \in StoreCall }

InitService ==
    /\ \E o \in InitializeOutcomes : client = o[1] /\ embedding_model = o[2]
    /\ index \in ServiceIndexes
    /\ next_id = Cardinality(index) + 1
    /\ ret = Result("init")
    /\ log = {}
    /\ \/ /\ db = [c \in Codes |-> Row(Fields(S(<<"a">>), None, None))]
          /\ call \in SearchCalls(index) \cup AddVariablesCalls \cup AddDocumentCalls
       \/ /\ db \in Tables
          /\ call \in SyncCalls \cup ForceResyncCalls

\* The except handlers of the five operations: an exception raised by one of
\* the remote calls in failed does not leave the operation.  Its variant
\* without handlers
EscapesUncaught(failed) == failed # {}

Escapes(failed) == FALSE

ServiceSemanticSearch ==
    /\ ret.op = "init" /\ call.op = "semantic_search"
    /\ \E filtered \in FilteredSearch(index, call.sc, call.limit,
                                      call.score_threshold, call.filter_type),
          unfiltered \in UnfilteredSearch(index, call.sc, call.limit,
                                          call.score_threshold) :
         LET r == semantic_search(call.filter_type, call.filteredOk, filtered,
                                  call.unfilteredOk, unfiltered) IN
         /\ ret' = [Result("semantic_search") EXCEPT !.results = r.results,
                                                     !.raised = Escapes(r.log)]
         /\ log' = r.log
    /\ UNCHANGED <<client, embedding_model, db, index, next_id, call>>

ServiceAddVariables ==
    /\ ret.op = "init" /\ call.op = "add_variables"
    /\ LET r == add_variables(index, next_id, call.variables, call.upsertOk) IN
         /\ index' = r.index
         /\ next_id' = r.next_id
         /\ log' = r.log
         /\ ret' = [Result("add_variables") EXCEPT !.added = r.ok,
                                                   !.raised = Escapes(r.log)]
    /\ UNCHANGED <<client, embedding_model, db, call>>

ServiceAddDocument ==
    /\ ret.op = "init" /\ call.op = "add_document"
    /\ LET r == add_document(index, next_id, call.document_id, call.upsertOk) IN
         /\ index' = r.index
         /\ next_id' = r.next_id
         /\ log' = r.log
         /\ ret' = [Result("add_document") EXCEPT !.added = r.ok,
                                                  !.raised = Escapes(r.log)]
    /\ UNCHANGED <<client, embedding_model, db, call>>

ServiceSync ==
    /\ ret.op = "init" /\ call.op = "sync"
    /\ LET r == sync_variables_from_database(index, next_id, db, call.dbOk,
                                             call.scrollOk, call.upsertOk) IN
         /\ index' = r.index
         /\ next_id' = r.next_id
         /\ log' = r.log
         /\ ret' = [r.ret EXCEPT !.raised = Escapes(r.log)]
    /\ UNCHANGED <<client, embedding_model, db, call>>

ServiceForceResync ==
    /\ ret.op = "init" /\ call.op = "force_resync"
    /\ LET r == force_resync_all_variables(index, next_id, db, call.delScrollOk,
                                           call.deleteOk, call.dbOk,
                                           call.scrollOk, call.upsertOk) IN
         /\ index' = r.index
         /\ next_id' = r.next_id
         /\ log' = r.log
         /\ ret' = [r.ret EXCEPT !.raised = Escapes(r.log)]
    /\ UNCHANGED <<client, embedding_model, db, call>>

NextService ==
    \/ ServiceSemanticSearch
    \/ ServiceAddVariables
    \/ ServiceAddDocument
    \/ ServiceSync
    \/ ServiceForceResync

SpecService == InitService /\ [][NextService]_vars

----------------------------------------------------------------------------
(* Properties of the sync engine *)

VariablePoints(idx) == {p \in idx : p.type = "variable"}
PointsOf(idx, c) == {p \in VariablePoints(idx) : p.variable_code = c}
IndexedCodes(idx) == {p.variable_code : p \in VariablePoints(idx)}

\* the records whose searchable text, as add_variables builds it, is not blank
NonBlankCodes(table) ==
    {c \in Codes : table[c].present
                   /\ strip(searchable_text(table[c].fields)) # <<>>}

\* a column that is empty, whitespace or NULL
BlankValue(v) == v.null \/ strip(v.s) = <<>>
AllBlank(f) ==
    /\ BlankValue(f.variable_name)
    /\ BlankValue(f.variable_description)
    /\ BlankValue(f.des_var_eng)

RowCount(table) == Cardinality({c \in Codes : table[c].present})

\* a sync step that follows a sync, neither of which logged a failed call
SecondCleanSync ==
    /\ Available
    /\ ret.op = "sync" /\ log = {}
    /\ ret'.op = "sync" /\ log' = {}

\* C1: the second of two syncs in a row, with no change of the table between
\* them, returns synced_count = 0 and skipped_count = total_db_variables.
\* (Stated for runs in which no remote call fails.)
C1_SecondSyncSkipsAll ==
    [][SecondCleanSync =>
          /\ ret'.synced_count = 0
          /\ ret'.skipped_count = ret'.total_db_variables]_vars

\* C2: a record with code X that a sync has indexed (one point) and that a
\* force resync then rebuilds ends with exactly one variable point with
\* code X, whether the delete step (its scroll, its delete) and the scroll
\* step of the force resync succeed or fail.
C2_RoundTripOnePoint ==
    [][(/\ Available
        /\ ret.op = "sync" /\ ret.success /\ log = {}
        /\ \E c \in NonBlankCodes(db) : Cardinality(PointsOf(index, c)) = 1
        /\ ret'.op = "force_resync"
        /\ log' \subseteq {"delete_scroll", "delete", "scroll"})
       => \A c \in NonBlankCodes(db) :
             Cardinality(PointsOf(index, c)) = 1
                 => Cardinality(PointsOf(index', c)) = 1]_vars

\* C3: after a sync that returns success (and logged no failed call) the
\* codes of the variable points are exactly the codes of the records with
\* non-blank searchable text
C3_IndexAgreesWithTable ==
    (Available /\ ret.op = "sync" /\ ret.success /\ log = {})
        => IndexedCodes(index) = NonBlankCodes(db)

\* the records of `table` with all three descriptive columns blank whose
\* code has no point in idx
BlankUnindexed(table, idx) ==
    {c \in Codes : /\ table[c].present
                   /\ AllBlank(table[c].fields)
                   /\ c \notin IndexedCodes(idx)}

\* C4: a sync that meets records with blank variable_name,
\* variable_description and des_var_eng (empty, whitespace or NULL) whose
\* code is not indexed creates no point for them, counts them in
\* skipped_count and does not count them in synced_count
C4_BlankRecordSkipped ==
    [][(/\ Available
        /\ BlankUnindexed(db, index) # {}
        /\ ret'.op = "sync" /\ ret'.success /\ log' = {})
       => /\ \A c \in BlankUnindexed(db, index) : PointsOf(index', c) = {}
          /\ ret'.skipped_count =
                 Cardinality({c \in Codes : db[c].present
                                            /\ c \in IndexedCodes(index)})
                 + Cardinality(BlankUnindexed(db, index))
          /\ ret'.synced_count = Cardinality(index' \ index)]_vars

----------------------------------------------------------------------------
(* Properties of single operations of the vector service *)

\* C5: on every path semantic_search returns at most `limit` results, sorted
\* by non-increasing score, each with a score of at least the threshold
C5_SearchSortedBounded ==
    ret.op = "semantic_search" =>
        /\ Len(ret.results) <= call.limit
        /\ \A i, j \in 1..Len(ret.results) :
               i < j => ret.results[i].score >= ret.results[j].score
        /\ \A i \in 1..Len(ret.results) :
               ret.results[i].score >= call.score_threshold

\* C5, its case: the filtered search failed, the unfiltered search answered,
\* and the manually filtered answer holds two results of different scores
\* while a third point scores below the threshold
C5_Witness ==
    /\ ret.op = "semantic_search" /\ log = {"filtered_search"}
    /\ Len(ret.results) = 2
    /\ ret.results[1].score > ret.results[2].score
    /\ \E p \in index : call.sc[VectorOf(p)] < call.score_threshold

\* C6: a search called with a filter type returns only results of that type,
\* on the filtered path and on the fallback path
C6_FilterHonoured ==
    (ret.op = "semantic_search" /\ Truthy(call.filter_type)) =>
        \A i \in 1..Len(ret.results) : ret.results[i].type = call.filter_type

\* C6, its case: the filtered search failed and the unfiltered search
\* answered every point above the threshold, one of another type among them
C6_Witness ==
    /\ ret.op = "semantic_search" /\ log = {"filtered_search"}
    /\ Len(ret.results) >= 1
    /\ call.limit >= Cardinality(index)
    /\ \E p \in index : /\ p.type # call.filter_type
                        /\ call.sc[VectorOf(p)] >= call.score_threshold

\* C7: on a service without client or embedding model every operation
\* returns an empty or false result, logs no failure, and leaves the
\* collection and the table as they were
C7_DisabledNoOp ==
    [][~Available =>
          /\ index' = index /\ db' = db /\ next_id' = next_id
          /\ ~ret'.success /\ ~ret'.added /\ ret'.results = <<>>
          /\ ret'.synced_count = 0 /\ ret'.skipped_count = 0
          /\ log' = {}]_vars

\* C7, its case: a search on a disabled service over a collection holding a
\* point that scores above the threshold
C7_Witness ==
    /\ ~Available /\ ret.op = "semantic_search"
    /\ \E p \in index : call.sc[VectorOf(p)] >= call.score_threshold

----------------------------------------------------------------------------
(* RuleGenerator: values of a RuleDocument *)

\* a JSON value as json.loads returns it: a list, a string or null
JV(kind, items, text) == [kind |-> kind, items |-> items, text |-> text]
EmptyList == JV("list", <<>>, "")
JsonNull == JV("null", <<>>, "")
JsonString(t) == JV("string", <<>>, t)

\* the truth value Python gives a JSON value
Truth(v) ==
    CASE v.kind = "list" -> Len(v.items) > 0
      [] v.kind = "string" -> v.text # ""
      [] OTHER -> FALSE

\* dict.get(key): None when the key is absent
Get(d, k) == IF k \in DOMAIN d THEN d[k] ELSE JsonNull

\* str(n) and the zero padding of the format :03d
DigitChars == <<"0", "1", "2", "3", "4", "5", "6", "7", "8", "9">>

RECURSIVE Decimal(_)
Decimal(n) ==
    IF n < 10 THEN <<DigitChars[n + 1]>>
    ELSE Decimal(n \div 10) \o <<DigitChars[(n % 10) + 1]>>

RECURSIVE ZeroPad(_, _)
ZeroPad(digits, width) ==
    IF Len(digits) >= width THEN digits ELSE ZeroPad(<<"0">> \o digits, width)

RulePrefix == <<"R", "U", "L", "E", "_">>

\* one element of business_rules: a dict with the keys it carries, or a
\* value that is not a dict
RuleDict(keys, rule_id, category, sentence) ==
    [dict |-> TRUE, keys |-> keys, rule_id |-> rule_id,
     category |-> category, sentence |-> sentence]
NotADict ==
    [dict |-> FALSE, keys |-> {}, rule_id |-> <<>>, category |-> "",
     sentence |-> 0]

\* the keys _parse_ai_response back-fills on a rule
RuleKeys == {"rule_id", "rule_name", "category", "variables_used"}

\* the keys of a rule the fallback emits
FallbackRuleKeys ==
    {"rule_id", "rule_name", "rule_logic", "category", "variables_used",
     "description"}

\* the keys every RuleDocument is to carry
expected_keys == {"business_rules", "variables", "constants"}

----------------------------------------------------------------------------
(* RuleGenerator._generate_rules_fallback *)

\* sentences shorter than this are skipped
MinSentenceLength == 20

\* the cap on the rules the fallback returns
MaxRules == 10

obligation_patterns == {"shall", "must", "required to", "agrees to", "undertakes to"}
restriction_patterns == {"shall not", "may not", "prohibited", "forbidden", "cannot"}
condition_patterns == {"if", "when", "unless", "provided that", "in the event"}
deadline_patterns == {"within", "by", "no later than", "before", "after"}
\* the last pattern stands for the Vietnamese currency word of the source
financial_patterns ==
    {"pay", "payment", "fee", "cost", "price", "$", "dollar", "vnd", "dong"}
termination_patterns == {"terminate", "termination", "end", "expire", "cancel"}

\* the keyword sets the loop tests, in the order it tests them, with the
\* category of the rule each emits
CategoryChecks ==
    << [patterns |-> obligation_patterns, category |-> "obligation"],
       [patterns |-> restriction_patterns, category |-> "restriction"],
       [patterns |-> condition_patterns, category |-> "condition"],
       [patterns |-> financial_patterns, category |-> "payment"] >>

\* A sentence of the text (a piece between two full stops): its length after
\* strip() and the keywords that occur in its lower-cased text
Sentence(length, words) == [length |-> length, words |-> words]

\* any(pattern in sentence_lower for pattern in patterns)
Matches(sentence, patterns) == sentence.words \cap patterns # {}

\* the rules one sentence emits: checks i.. in order, numbered from
\* rule_counter
RECURSIVE SentenceRules(_, _, _, _)
SentenceRules(sentence, idx, i, rule_counter) ==
    IF i > Len(CategoryChecks) THEN <<>>
    ELSE IF Matches(sentence, CategoryChecks[i].patterns)
         THEN <<RuleDict(FallbackRuleKeys,
                         RulePrefix \o ZeroPad(Decimal(rule_counter), 3),
                         CategoryChecks[i].category, idx)>>
              \o SentenceRules(sentence, idx, i + 1, rule_counter + 1)
         ELSE SentenceRules(sentence, idx, i + 1, rule_counter)

\* the loop over the sentences
RECURSIVE ExtractRules(_, _, _)
ExtractRules(sentences, i, rule_counter) ==
    IF i > Len(sentences) THEN <<>>
    ELSE IF sentences[i].length < MinSentenceLength
         THEN ExtractRules(sentences, i + 1, rule_counter)
         ELSE LET found == SentenceRules(sentences[i], i, 1, rule_counter)
              IN found \o ExtractRules(sentences, i + 1,
                                       rule_counter + Len(found))

\* the three variables the fallback always lists
CommonVariables == <<"PARTY_TYPE", "CONDITION_MET", "PAYMENT_DUE">>

\* the limit on the rules returned; its variant that returns them all
LimitNothing(business_rules) == business_rules

LimitResults(business_rules) ==
    IF Len(business_rules) > MaxRules
    THEN SubSeq(business_rules, 1, MaxRules)
    ELSE business_rules

\* rule_counter = 1 at the head of every call; its variant that goes on
\* counting from the rules of the document returned last
CarriedRuleCounter ==
    IF ret.returned /\ "business_rules" \in DOMAIN ret.rules
    THEN Len(ret.rules["business_rules"].items) + 1
    ELSE 1

InitialRuleCounter == 1

_generate_rules_fallback(text, document_type) ==
    LET all == ExtractRules(text, 1, InitialRuleCounter)
    IN ("business_rules" :> JV("list", LimitResults(all), ""))
       @@ ("variables" :> JV("list", CommonVariables, ""))
       @@ ("constants" :> EmptyList)
       @@ ("provider" :> JsonString("pattern_matching"))
       @@ ("extraction_method" :> JsonString("fallback"))
       @@ ("rule_format" :> JsonString("structured_conditional"))

----------------------------------------------------------------------------
(* RuleGenerator._parse_ai_response *)

\* The text a model returns is a sequence of pieces: a brace, a blank, other
\* text, or a whole member (key: value) of a JSON object
OpenBrace == "{"
CloseBrace == "}"
Blank == " "
OtherText == "x"

\* a long run of commentary, written as one piece
LongText == "x..."

\* the members a model may write, with the key and value json.loads gives
Members ==
    ("business_rules: [{rule_id: RULE_001, rule_name, category, variables_used}]"
        :> [key |-> "business_rules",
            value |-> JV("list", <<RuleDict(RuleKeys,
                                            RulePrefix \o <<"0", "0", "1">>,
                                            "payment", 0)>>, "")])
    @@ ("business_rules: [{}, {}]"
        :> [key |-> "business_rules",
            value |-> JV("list", <<RuleDict({}, <<>>, "", 0),
                                   RuleDict({}, <<>>, "", 0)>>, "")])
    @@ ("business_rules: null"
        :> [key |-> "business_rules", value |-> JsonNull])
    @@ ("business_rules: text"
        :> [key |-> "business_rules", value |-> JsonString("text")])
    @@ ("business_rules: [1]"
        :> [key |-> "business_rules", value |-> JV("list", <<NotADict>>, "")])
    @@ ("variables: []"
        :> [key |-> "variables", value |-> EmptyList])
    @@ ("provider: model"
        :> [key |-> "provider", value |-> JsonString("model")])

\* str.find and str.rfind, 1-based; 0: not found
RECURSIVE find(_, _, _)
find(s, ch, i) ==
    IF i > Len(s) THEN 0 ELSE IF s[i] = ch THEN i ELSE find(s, ch, i + 1)

RECURSIVE rfind(_, _, _)
rfind(s, ch, i) ==
    IF i = 0 THEN 0 ELSE IF s[i] = ch THEN i ELSE rfind(s, ch, i - 1)

\* json.loads accepts the text: an object whose inside holds members and
\* blanks only
JsonValid(json_str) ==
    /\ Len(json_str) >= 2
    /\ json_str[1] = OpenBrace
    /\ json_str[Len(json_str)] = CloseBrace
    /\ \A i \in 2..(Len(json_str) - 1) :
           json_str[i] = Blank \/ json_str[i] \in DOMAIN Members

\* json.loads: the dict of the object; of two members with one key the later
\* one stays
JsonLoads(json_str) ==
    LET at == {i \in 1..Len(json_str) : json_str[i] \in DOMAIN Members}
        keyAt(i) == Members[json_str[i]].key
        last(k) == CHOOSE i \in at :
                       /\ keyAt(i) = k
                       /\ \A j \in at : keyAt(j) = k => j <= i
    IN [k \in {keyAt(i) : i \in at} |-> Members[json_str[last(k)]].value]

\* the loop that adds missing keys with an empty list; its variant that
\* adds none
BackfillNothing(parsed_rules) == parsed_rules

BackfillKeys(parsed_rules) ==
    [k \in DOMAIN parsed_rules \cup expected_keys |->
        IF k \in DOMAIN parsed_rules THEN parsed_rules[k] ELSE EmptyList]

\* the loop over business_rules raises: the value is not a list, or an
\* element is not a dict
RulesRaise(business_rules) ==
    /\ Truth(business_rules)
    /\ \/ business_rules.kind # "list"
       \/ \E i \in 1..Len(business_rules.items) : ~business_rules.items[i].dict

\* the loop over business_rules: the fields a rule lacks are filled in
BackfillRules(business_rules) ==
    IF ~Truth(business_rules) THEN business_rules
    ELSE LET n == Len(business_rules.items)
             fill(rule) ==
                 RuleDict(rule.keys \cup RuleKeys,
                          IF "rule_id" \in rule.keys THEN rule.rule_id
                          ELSE RulePrefix \o Decimal(n),
                          IF "category" \in rule.keys THEN rule.category
                          ELSE "general",
                          rule.sentence)
         IN JV("list", [i \in 1..n |-> fill(business_rules.items[i])], "")

\* the characters of the long run of commentary
LongTextLength == 999

\* len(piece): the characters a piece stands for
PieceLength(piece) ==
    CASE piece = LongText -> LongTextLength
      [] piece = "business_rules: [{rule_id: RULE_001, rule_name, category, variables_used}]" -> 74
      [] piece = "business_rules: [{}, {}]" -> 24
      [] piece = "business_rules: null" -> 20
      [] piece = "business_rules: text" -> 20
      [] piece = "business_rules: [1]" -> 19
      [] piece = "variables: []" -> 13
      [] piece = "provider: model" -> 15
      [] OTHER -> 1

\* the length content[:1000] keeps, in characters
RawLimit == 1000

\* content[:n]: the pieces of the first n characters, each with the
\* characters kept of it; its variant that keeps the whole content
TakeAll(content, n) ==
    [i \in 1..Len(content) |->
        [piece |-> content[i], chars |-> PieceLength(content[i])]]

RECURSIVE Take(_, _)
Take(content, n) ==
    IF content = <<>> \/ n = 0 THEN <<>>
    ELSE LET kept == Min(PieceLength(Head(content)), n)
         IN <<[piece |-> Head(content), chars |-> kept]>>
            \o Take(Tail(content), n - kept)

\* the except branch, and its variant that runs the fallback extraction
ParseFailureAsFallback(content, provider) ==
    _generate_rules_fallback(<<>>, "contract")

\* the document of the except branch
ParseFailure(content, provider) ==
    ("business_rules" :> EmptyList)
    @@ ("variables" :> EmptyList)
    @@ ("constants" :> EmptyList)
    @@ ("provider" :> JsonString(provider))
    @@ ("extraction_method" :> JsonString("ai_generated"))
    @@ ("rule_format" :> JsonString("structured_conditional"))
    @@ ("raw_response" :>
            JV("text", Take(content, RawLimit), ""))
    @@ ("error" :> JsonString("Failed to parse response"))

_parse_ai_response(content, provider) ==
    LET start_idx == find(content, OpenBrace, 1)
        end_idx == rfind(content, CloseBrace, Len(content))
        json_str == SubSeq(content, start_idx, end_idx)
    IN IF start_idx = 0 \/ end_idx = 0 \/ ~JsonValid(json_str)
       THEN ParseFailure(content, provider)
       ELSE LET parsed_rules == BackfillKeys(JsonLoads(json_str))
                business_rules == Get(parsed_rules, "business_rules")
            IN IF RulesRaise(business_rules)
               THEN ParseFailure(content, provider)
               ELSE [k \in DOMAIN parsed_rules
                           \cup {"provider", "extraction_method", "rule_format"} |->
                        CASE k = "provider" -> JsonString(provider)
                          [] k = "extraction_method" -> JsonString("ai_generated")
                          [] k = "rule_format" -> JsonString("structured_conditional")
                          [] k = "business_rules" -> BackfillRules(business_rules)
                          [] OTHER -> parsed_rules[k]]

----------------------------------------------------------------------------
(* RuleGenerator._generate_rules_groq and generate_rules *)

\* What client.chat.completions.create does: it raises, or it returns a
\* completion that is None, has no choices, has a first choice without
\* message or content, or has content (None, or a string)
Completion(kind, content) == [kind |-> kind, content |-> content]

\* the branch taken on content that is None or empty; its variant that
\* hands the content to the parser
EmptyContentParsed(text, document_type) == _parse_ai_response(<<>>, "groq")

EmptyContent(text, document_type) == _generate_rules_fallback(text, document_type)

\* How a function ends: it returns a value, or an exception leaves it
Return(value) == [raised |-> FALSE, value |-> value]
Raise == [raised |-> TRUE, value |-> <<>>]

\* except Exception: return await self._generate_rules_fallback(...), the
\* handler of _generate_rules_groq and of generate_rules; its variant that
\* lets the exception through
Uncaught(outcome, text, document_type) == outcome

ExceptFallback(outcome, text, document_type) ==
    IF outcome.raised
    THEN Return(_generate_rules_fallback(text, document_type))
    ELSE outcome

\* the try block of _generate_rules_groq
TryGroq(text, document_type, completion) ==
    CASE completion.kind = "raises" -> Raise
      [] completion.kind \in {"None", "no_choices"} ->
             Return(_generate_rules_fallback(text, document_type))
      [] completion.kind = "no_message" ->
             Return(_generate_rules_fallback(text, document_type))
      [] completion.kind = "content" ->
             IF completion.content.null \/ completion.content.s = <<>>
             THEN Return(EmptyContent(text, document_type))
             ELSE Return(_parse_ai_response(strip(completion.content.s), "groq"))

_generate_rules_groq(text, document_type, completion) ==
    ExceptFallback(TryGroq(text, document_type, completion),
                   text, document_type)

\* generate_rules on a generator whose client field is generator_client
generate_rules(generator_client, text, document_type, completion) ==
    ExceptFallback(IF generator_client
                   THEN _generate_rules_groq(text, document_type, completion)
                   ELSE Return(_generate_rules_fallback(text, document_type)),
                   text, document_type)

\* RuleGenerator(): the client field after construction, or raised
\* (no api key, or Groq(...) raised)
RuleGeneratorInit(groq_api_key, groqOk) ==
    IF groq_api_key = "" THEN [raised |-> TRUE, client |-> FALSE]
    ELSE IF ~groqOk THEN [raised |-> TRUE, client |-> FALSE]
    ELSE [raised |-> FALSE, client |-> TRUE]

----------------------------------------------------------------------------
(* Rule extraction, one call per behaviour *)

\* sentences in a document text
MaxSentences == 3

\* pieces in a model's content
MaxContent == 4

\* the kinds of sentence a text is made of
SentenceKinds ==
    { Sentence(MinSentenceLength - 1, {"shall"}),   \* too short
      Sentence(MinSentenceLength, {}),              \* no keyword
      Sentence(MinSentenceLength, {"must"}),
      Sentence(MinSentenceLength, {"shall", "shall not"}),
      Sentence(MinSentenceLength, {"shall", "shall not", "if", "pay"}),
      Sentence(MinSentenceLength, {"expire"}) }

SeqsUpTo(set, n) == UNION {[1..k -> set] : k \in 0..n}

Texts == SeqsUpTo(SentenceKinds, MaxSentences)

Pieces ==
    {OpenBrace, CloseBrace, Blank, OtherText, LongText} \cup DOMAIN Members

\* a model's content: None, the empty string, or pieces
Contents == {None} \cup {S(c) : c \in SeqsUpTo(Pieces, MaxContent)}

\* the text a completion with content to parse is tried on
ParsedText == <<Sentence(MinSentenceLength, {"must"})>>

\* the text is read by the fallback only, the content by the parser only:
\* a completion with content to parse is tried on one text
Completions(text) ==
    {Completion(k, None) : k \in {"raises", "None", "no_choices", "no_message"}}
    \cup {Completion("content", c) : c \in {None, S(<<>>)}}
    \cup IF text = ParsedText
         THEN {Completion("content", c) : c \in Contents}
         ELSE {}

NoDocument == <<>>

RulesResult(op, status, returned, rules) ==
    [op |-> op, status |-> status, returned |-> returned, rules |-> rules]

RulesCall(op, document_exists, groq_api_key, groqOk, text, completion, commitOk) ==
    [op |-> op, document_exists |-> document_exists,
     groq_api_key |-> groq_api_key, groqOk |-> groqOk, text |-> text,
     completion |-> completion, commitOk |-> commitOk, provider |-> "groq"]

\* the providers _parse_ai_response may be given
Providers == {"groq", "other"}

\* a direct call of _parse_ai_response(content, provider); the content is
\* carried in call.completion
ParseCall(c) ==
    \E content \in SeqsUpTo(Pieces, MaxContent) : \E provider \in Providers :
        c = [RulesCall("_parse_ai_response", TRUE, "gsk_key", TRUE, <<>>,
                       Completion("content", S(content)), TRUE)
                EXCEPT !.provider = provider]

\* a call of generate_rules on a constructed generator
GenerateCall(c) ==
    \E t \in Texts : \E m \in Completions(t) :
        c = RulesCall("generate_rules", TRUE, "gsk_key", TRUE, t, m, TRUE)

\* a request to POST /generate-rules/{document_id}; what a request does not
\* reach is left at one value
EndpointCall(c) ==
    \/ c = RulesCall("generate_rules_endpoint", FALSE, "gsk_key", TRUE, <<>>,
                     Completion("raises", None), TRUE)
    \/ \E t \in Texts : \E key \in {"", "gsk_key"} :
           c = RulesCall("generate_rules_endpoint", TRUE, key, key = "", t,
                         Completion("raises", None), TRUE)
    \/ \E t \in Texts : \E m \in Completions(t) : \E ok \in BOOLEAN :
           c = RulesCall("generate_rules_endpoint", TRUE, "gsk_key", TRUE, t,
                         m, ok)

\* POST /generate-rules/{document_id}: every exception raised inside the
\* handler, the 404 of a missing document among them, is answered as 500
generate_rules_endpoint(c) ==
    IF ~c.document_exists
    THEN RulesResult("generate_rules_endpoint", 500, FALSE, NoDocument)
    ELSE LET rule_generator == RuleGeneratorInit(c.groq_api_key, c.groqOk) IN
         IF rule_generator.raised
         THEN RulesResult("generate_rules_endpoint", 500, FALSE, NoDocument)
         ELSE LET rules_data == generate_rules(rule_generator.client, c.text,
                                               "contract", c.completion)
              IN IF rules_data.raised \/ ~c.commitOk
                 THEN RulesResult("generate_rules_endpoint", 500, FALSE, NoDocument)
                 ELSE RulesResult("generate_rules_endpoint", 200, TRUE,
                                  rules_data.value)

InitRules ==
    /\ client = FALSE /\ embedding_model = FALSE
    /\ db = [c \in Codes |-> NoRow]
    /\ index = {}
    /\ next_id = 1
    /\ log = {}
    /\ ret = RulesResult("init", 0, FALSE, NoDocument)
    /\ GenerateCall(call) \/ EndpointCall(call) \/ ParseCall(call)

GenerateRules ==
    /\ ret.op = "init" /\ call.op = "generate_rules"
    /\ LET rules_data == generate_rules(TRUE, call.text, "contract",
                                        call.completion)
       IN ret' = RulesResult("generate_rules", 0, ~rules_data.raised,
                             rules_data.value)
    /\ UNCHANGED <<client, embedding_model, db, index, next_id, log, call>>

GenerateRulesEndpoint ==
    /\ ret.op = "init" /\ call.op = "generate_rules_endpoint"
    /\ ret' = generate_rules_endpoint(call)
    /\ UNCHANGED <<client, embedding_model, db, index, next_id, log, call>>

ParseAiResponse ==
    /\ ret.op = "init" /\ call.op = "_parse_ai_response"
    /\ ret' = RulesResult("_parse_ai_response", 0, TRUE,
                          _parse_ai_response(call.completion.content.s,
                                             call.provider))
    /\ UNCHANGED <<client, embedding_model, db, index, next_id, log, call>>

NextRules ==
    \/ GenerateRules
    \/ GenerateRulesEndpoint
    \/ ParseAiResponse

SpecRules == InitRules /\ [][NextRules]_vars

----------------------------------------------------------------------------
(* Properties of rule extraction *)

\* the model call gave nothing to parse: it raised, or returned no choices,
\* a malformed completion, or content that is None or empty
NothingToParse(completion) ==
    \/ completion.kind \in {"raises", "None", "no_choices", "no_message"}
    \/ /\ completion.kind = "content"
       /\ completion.content.null \/ completion.content.s = <<>>

IsFallback(rules) ==
    /\ rules["provider"] = JsonString("pattern_matching")
    /\ rules["extraction_method"] = JsonString("fallback")

\* C8: a generate-rules request for an existing document, made with an
\* empty API key, is answered 200 with the pattern-matching document
C8_NoKeyAnswersFallback ==
    (/\ ret.op = "generate_rules_endpoint"
     /\ call.document_exists /\ call.groq_api_key = "") =>
        /\ ret.status = 200
        /\ ret.returned
        /\ IsFallback(ret.rules)

\* C9: when the model call raises, or returns no choices, a malformed
\* completion or empty content, generate_rules returns the pattern-matching
\* document (extraction_method fallback, provider pattern_matching)
C9_FailedCallFallsBack ==
    (/\ ret.op \in {"generate_rules", "generate_rules_endpoint"}
     /\ ret.returned /\ NothingToParse(call.completion)) =>
        IsFallback(ret.rules)

\* C9, its case: the model answered with empty content on a text that
\* holds a sentence with a keyword, and generate_rules returned rules
C9_Witness ==
    /\ ret.op = "generate_rules"
    /\ call.completion.kind = "content"
    /\ ~call.completion.content.null /\ call.completion.content.s = <<>>
    /\ Len(ret.rules["business_rules"].items) >= 1

\* C10: every document generate_rules returns carries business_rules,
\* variables and constants, and provider, extraction_method and rule_format
C10_KeysPresent ==
    ret.returned =>
        expected_keys \cup {"provider", "extraction_method", "rule_format"}
            \subseteq DOMAIN ret.rules

\* C10, its case: the model's content parsed as an object that has
\* business_rules but neither variables nor constants
C10_Witness ==
    /\ ret.op = "generate_rules"
    /\ call.completion.kind = "content" /\ ~call.completion.content.null
    /\ ret.rules["extraction_method"] = JsonString("ai_generated")
    /\ "raw_response" \notin DOMAIN ret.rules
    /\ Len(ret.rules["business_rules"].items) = 2
    /\ \A i \in 1..Len(call.completion.content.s) :
           call.completion.content.s[i] # "variables: []"

\* the content cannot be parsed as structured data: it has no opening or no
\* closing brace, or the text from the first "{" to the last "}" is not JSON
Unparseable(content) ==
    LET start_idx == find(content, OpenBrace, 1)
        end_idx == rfind(content, CloseBrace, Len(content))
    IN \/ start_idx = 0
       \/ end_idx = 0
       \/ ~JsonValid(SubSeq(content, start_idx, end_idx))

\* generate_rules returned after the model answered content that is not
\* empty and cannot be parsed
MalformedContentReturned ==
    /\ ret.op = "generate_rules"
    /\ call.completion.kind = "content"
    /\ ~call.completion.content.null /\ call.completion.content.s # <<>>
    /\ Unparseable(strip(call.completion.content.s))

\* C11 as stated: model output that cannot be parsed makes generate_rules
\* return the pattern-matching document (extraction_method fallback)
C11_MalformedGoesToFallback ==
    MalformedContentReturned => IsFallback(ret.rules)

\* C11, amended: model output that cannot be parsed makes generate_rules
\* return the parse-failure document: empty business_rules, variables and
\* constants, provider groq, extraction_method ai_generated, the raw
\* response and an error; the fallback extraction is not entered
C11_MalformedReturnsParseFailure ==
    MalformedContentReturned =>
        /\ ret.rules["extraction_method"] = JsonString("ai_generated")
        /\ ret.rules["provider"] = JsonString("groq")
        /\ \A k \in expected_keys : ret.rules[k] = EmptyList
        /\ {"raw_response", "error"} \subseteq DOMAIN ret.rules

\* C11, its case: the model wrote braces around text that is not JSON, for a
\* document whose text the fallback would have turned into a rule
C11_Witness ==
    /\ MalformedContentReturned
    /\ find(call.completion.content.s, OpenBrace, 1) # 0
    /\ rfind(call.completion.content.s, CloseBrace,
             Len(call.completion.content.s)) # 0
    /\ Len(_generate_rules_fallback(call.text, "contract")["business_rules"].items) >= 1

\* len(content), in characters
RECURSIVE ContentLength(_)
ContentLength(content) ==
    IF content = <<>> THEN 0
    ELSE PieceLength(Head(content)) + ContentLength(Tail(content))

\* the except branch of _parse_ai_response is taken: the content cannot be
\* parsed, or the loop over business_rules raises
ParseFails(content) ==
    \/ Unparseable(content)
    \/ RulesRaise(Get(JsonLoads(SubSeq(content, find(content, OpenBrace, 1),
                                       rfind(content, CloseBrace, Len(content)))),
                      "business_rules"))

\* raw is the text of the first n characters of content
IsPrefixOfLength(raw, content, n) ==
    /\ Len(raw) <= Len(content)
    /\ \A i \in 1..Len(raw) :
           /\ raw[i].piece = content[i]
           /\ 1 <= raw[i].chars /\ raw[i].chars <= PieceLength(content[i])
           /\ i < Len(raw) => raw[i].chars = PieceLength(content[i])
    /\ ContentLength([i \in 1..Len(raw) |-> raw[i].piece])
           - (IF raw = <<>> THEN 0
              ELSE PieceLength(raw[Len(raw)].piece) - raw[Len(raw)].chars) = n

\* C12: on parse failure _parse_ai_response returns (it does not raise) a
\* document with empty business_rules, variables and constants,
\* extraction_method ai_generated, the provider it was given, and the first
\* 1000 characters of the raw response
C12_ParseFailureDocument ==
    (/\ ret.op = "_parse_ai_response"
     /\ ParseFails(call.completion.content.s)) =>
        /\ ret.returned
        /\ \A k \in expected_keys : ret.rules[k] = EmptyList
        /\ ret.rules["extraction_method"] = JsonString("ai_generated")
        /\ ret.rules["provider"] = JsonString(call.provider)
        /\ "raw_response" \in DOMAIN ret.rules
        /\ IsPrefixOfLength(ret.rules["raw_response"].items,
                            call.completion.content.s,
                            Min(ContentLength(call.completion.content.s), 1000))

\* C12, its case: a response of more than 1000 characters that cannot be
\* parsed, given with a provider other than groq, cut inside a piece
C12_Witness ==
    /\ ret.op = "_parse_ai_response"
    /\ ParseFails(call.completion.content.s)
    /\ call.provider # "groq"
    /\ ContentLength(call.completion.content.s) > 1000
    /\ \E i \in 1..Len(ret.rules["raw_response"].items) :
           ret.rules["raw_response"].items[i].chars
               < PieceLength(ret.rules["raw_response"].items[i].piece)

\* the business_rules list json.loads gave for a content that parses
ParsedRules(content) ==
    Get(JsonLoads(SubSeq(content, find(content, OpenBrace, 1),
                         rfind(content, CloseBrace, Len(content)))),
        "business_rules")

\* the rule_ids of a list of rules are pairwise distinct
DistinctRuleIds(rules) ==
    \A i, j \in 1..Len(rules) : i # j => rules[i].rule_id # rules[j].rule_id

\* C13: in a parsed model output every back-filled rule_id differs from
\* the rule_id of every other rule of the document, and the rule_ids the
\* fallback emits are pairwise distinct
C13_RuleIdsUnique ==
    /\ (/\ ret.op = "_parse_ai_response"
        /\ ~ParseFails(call.completion.content.s)
        /\ Truth(ParsedRules(call.completion.content.s))) =>
           LET given == ParsedRules(call.completion.content.s).items
               rules == ret.rules["business_rules"].items
           IN \A i, j \in 1..Len(rules) :
                  (i # j /\ "rule_id" \notin given[i].keys) =>
                      rules[i].rule_id # rules[j].rule_id
    /\ (ret.op = "generate_rules" /\ IsFallback(ret.rules)) =>
           DistinctRuleIds(ret.rules["business_rules"].items)

\* the five keyword sets the fallback is to test
FiveKeywordSets ==
    {obligation_patterns, restriction_patterns, condition_patterns,
     financial_patterns, termination_patterns}

\* the rules the sentences of a text are to emit: one per sentence of at
\* least 20 characters and keyword set it matches
RECURSIVE MatchCount(_)
MatchCount(text) ==
    IF text = <<>> THEN 0
    ELSE (IF Head(text).length >= 20
          THEN Cardinality({ps \in FiveKeywordSets : Matches(Head(text), ps)})
          ELSE 0)
         + MatchCount(Tail(text))

\* C14: the fallback emits one rule per sentence of at least 20 characters
\* and keyword set, of the five (obligation, restriction, condition,
\* payment, termination), that the sentence matches, as long as the cap of
\* 10 is not reached
C14_OneRulePerMatchingSet ==
    (/\ ret.op = "generate_rules" /\ IsFallback(ret.rules)
     /\ MatchCount(call.text) <= 10) =>
        Len(ret.rules["business_rules"].items) = MatchCount(call.text)

\* the matches of a text: a sentence of at least 20 characters and, by its
\* place in the order of the checks, a keyword set the loop tests on it
FallbackMatches(text) ==
    {m \in (1..Len(text)) \X (1..Len(CategoryChecks)) :
        /\ text[m[1]].length >= 20
        /\ Matches(text[m[1]], CategoryChecks[m[2]].patterns)}

\* the place of a match in sentence order and, within a sentence, in the
\* order of the keyword sets
MatchRank(text, m) ==
    1 + Cardinality({q \in FallbackMatches(text) :
                        q[1] < m[1] \/ (q[1] = m[1] /\ q[2] < m[2])})

\* C15: the fallback returns at most 10 rules, and they are the first 10
\* matches (all of them when there are fewer) in sentence order and, within
\* a sentence, in the order of the keyword sets
C15_FirstTenRules ==
    (ret.op = "generate_rules" /\ IsFallback(ret.rules)) =>
        LET rules == ret.rules["business_rules"].items
            matches == FallbackMatches(call.text)
        IN /\ Len(rules) <= 10
           /\ Len(rules) = Min(10, Cardinality(matches))
           /\ \A n \in 1..Len(rules) :
                  \E m \in matches :
                      /\ MatchRank(call.text, m) = n
                      /\ rules[n].sentence = m[1]
                      /\ rules[n].category = CategoryChecks[m[2]].category

\* C15, its case: a text with more than 10 matches, of which 10 are returned
C15_Witness ==
    /\ ret.op = "generate_rules" /\ IsFallback(ret.rules)
    /\ Cardinality(FallbackMatches(call.text)) > 10
    /\ Len(ret.rules["business_rules"].items) = 10

----------------------------------------------------------------------------
(* The fallback extraction called again and again on one generator *)

\* sentences in a text given to a run
MaxRunSentences == 3

\* runs of one behaviour
MaxRuns == 3

RunTexts ==
    SeqsUpTo({Sentence(MinSentenceLength - 1, {"shall"}),
              Sentence(MinSentenceLength, {"shall", "shall not", "if", "pay"})},
             MaxRunSentences)

NoRun == [run |-> FALSE, text |-> <<>>, rules |-> NoDocument]

\* the text of the run under way, the text of the run before it, the first
\* run with what it returned, and the number of runs so far
FallbackCall(text, previous, earlier, runs) ==
    [op |-> "_generate_rules_fallback", text |-> text, previous |-> previous,
     earlier |-> earlier, runs |-> runs]

InitFallback ==
    /\ client = FALSE /\ embedding_model = FALSE
    /\ db = [c \in Codes |-> NoRow]
    /\ index = {}
    /\ next_id = 1
    /\ log = {}
    /\ ret = RulesResult("init", 0, FALSE, NoDocument)
    /\ call = FallbackCall(<<>>, <<>>, NoRun, 0)

FallbackRun ==
    /\ call.runs < MaxRuns
    /\ \E text \in RunTexts :
           LET rules == _generate_rules_fallback(text, "contract")
           IN /\ ret' = RulesResult("_generate_rules_fallback", 0, TRUE, rules)
              /\ call' = FallbackCall(text, call.text,
                                      IF call.earlier.run THEN call.earlier
                                      ELSE [run |-> TRUE, text |-> text,
                                            rules |-> rules],
                                      call.runs + 1)
    /\ UNCHANGED <<client, embedding_model, db, index, next_id, log>>

NextFallback == FallbackRun

SpecFallback == InitFallback /\ [][NextFallback]_vars

----------------------------------------------------------------------------
(* Properties of generate_rules as a whole *)

\* a well-formed RuleDocument: the three lists, and provider,
\* extraction_method and rule_format as strings
WellFormed(rules) ==
    /\ expected_keys \cup {"provider", "extraction_method", "rule_format"}
           \subseteq DOMAIN rules
    /\ \A k \in {"variables", "constants"} : rules[k].kind = "list"
    /\ \A k \in {"provider", "extraction_method", "rule_format"} :
           rules[k].kind = "string" /\ rules[k].text # ""
    /\ rules["extraction_method"].text \in {"ai_generated", "fallback"}

----------------------------------------------------------------------------
(* Remote failures of the vector store *)

\* the vector-store calls: the two searches, upsert, the two scrolls, delete
StoreCalls ==
    {"filtered_search", "search", "upsert", "scroll", "delete_scroll", "delete"}

\* C18 as stated: when a vector-store call throws, semantic_search returns
\* an empty list, add_document and add_variables return false, sync and
\* force resync return a result dictionary, and no exception leaves
C18_FailureGivesEmptyResult ==
    (log \cap StoreCalls # {}) =>
        /\ ~ret.raised
        /\ ret.op = "semantic_search" => ret.results = <<>>
        /\ ret.op \in {"add_document", "add_variables"} => ~ret.added
        /\ ret.op \in {"sync", "force_resync"} => ret.has_counts

\* C18, amended: when a vector-store call throws no exception leaves;
\* semantic_search returns an empty list when the unfiltered search threw
\* and, when only the filtered search threw, the hits of the unfiltered
\* search that have the requested type; add_document and add_variables
\* return false; sync and force resync return a result dictionary
C18_FailureNeverRaises ==
    (log \cap StoreCalls # {}) =>
        /\ ~ret.raised
        /\ ret.op = "semantic_search" =>
              /\ "search" \in log => ret.results = <<>>
              /\ "search" \notin log =>
                    /\ Len(ret.results) <= call.limit
                    /\ \A i \in 1..Len(ret.results) :
                          /\ ret.results[i].type = call.filter_type
                          /\ ret.results[i].score >= call.score_threshold
        /\ ret.op \in {"add_document", "add_variables"} =>
              ~ret.added
        /\ ret.op \in {"sync", "force_resync"} => ret.has_counts

\* C18, its case: the filtered search threw and the unfiltered search
\* answered with a hit of the requested type
C18_Witness ==
    /\ ret.op = "semantic_search" /\ log = {"filtered_search"}
    /\ Len(ret.results) >= 1

----------------------------------------------------------------------------
(* The documents API (app/api/documents.py), one request per behaviour.    *)
(* In these behaviours db is the Document table: a set of rows.            *)

\* settings.max_file_size and settings.allowed_extensions
max_file_size == 10485760
allowed_extensions == {"pdf", "docx", "txt"}

\* An uploaded file: whether it has a filename, the extension of the
\* filename, the length of its content, and what the MIME detection does
\* (the detected type is among those expected for the extension, is not, or
\* the detection raises)
File(has_filename, extension, size, mime) ==
    [has_filename |-> has_filename, extension |-> extension, size |-> size,
     mime |-> mime]

validate_file(file) ==
    IF file.size > max_file_size THEN [valid |-> FALSE, error |-> "size"]
    ELSE IF ~file.has_filename THEN [valid |-> FALSE, error |-> "filename"]
    ELSE IF file.extension \notin allowed_extensions
    THEN [valid |-> FALSE, error |-> "type"]
    ELSE IF file.mime = "mismatch" THEN [valid |-> FALSE, error |-> "content"]
    ELSE IF file.size = 0 THEN [valid |-> FALSE, error |-> "empty"]
    ELSE [valid |-> TRUE, error |-> "None"]

\* a row of the Document table
DocumentRow(id, content) == [id |-> id, content |-> content]

\* the id uuid4 gives a new document: none that is in use
NewDocumentId == "d_new"

\* db.query(Document).filter(Document.id == document_id).first()
FindDocument(table, document_id) == {row \in table : row.id = document_id}

\* len(content.strip()), the full stops left out
RECURSIVE TextLength(_)
TextLength(text) ==
    IF text = <<>> THEN 0 ELSE Head(text).length + TextLength(Tail(text))

\* what a handler answers for an HTTPException raised inside its try block:
\* upload, generate-rules and download catch every Exception and answer 500;
\* summarize re-raises an HTTPException as it is
ExceptException(status_code) == 500
ExceptHTTPException(status_code) == status_code

\* the answer of a request: the status, and the table and the index after it
Answer(op, status_code, table, idx, id, failed) ==
    [ret |-> [Result(op) EXCEPT !.status = status_code], db |-> table,
     index |-> idx, next_id |-> id, log |-> failed]

\* POST /upload
upload_document(table, idx, id, file, extracted_text, storageOk, extractOk, commitOk, upsertOk) ==
    LET op == "upload_document" IN
    IF ~validate_file(file).valid
    THEN Answer(op, ExceptException(400), table, idx, id, {})
    ELSE IF ~storageOk
    THEN Answer(op, ExceptException(500), table, idx, id, {"storage"})
    ELSE IF ~extractOk
    THEN Answer(op, 500, table, idx, id, {"extract_text"})
    ELSE IF ~commitOk
    THEN Answer(op, 500, table, idx, id, {"commit"})
    ELSE LET added == add_document(idx, id, NewDocumentId, upsertOk)
         IN Answer(op, 201,
                   table \cup {DocumentRow(NewDocumentId, extracted_text)},
                   added.index, added.next_id, added.log)

\* GET /documents/{document_id}
get_document(table, idx, id, document_id) ==
    IF FindDocument(table, document_id) = {}
    THEN Answer("get_document", 404, table, idx, id, {})
    ELSE Answer("get_document", 200, table, idx, id, {})

\* POST /summarize/{document_id}
summarize_document(table, idx, id, document_id, summaryOk, commitOk) ==
    LET op == "summarize_document"
        found == FindDocument(table, document_id)
    IN IF found = {}
       THEN Answer(op, ExceptHTTPException(404), table, idx, id, {})
       ELSE IF \A row \in found : TextLength(row.content) < 10
       THEN Answer(op, ExceptHTTPException(400), table, idx, id, {})
       ELSE IF ~summaryOk
       THEN Answer(op, ExceptHTTPException(500), table, idx, id, {"summarize"})
       ELSE IF ~commitOk
       THEN Answer(op, 500, table, idx, id, {"commit"})
       ELSE Answer(op, 200, table, idx, id, {})

\* GET /documents/{document_id}/download
download_document(table, idx, id, document_id, urlOk) ==
    LET op == "download_document" IN
    IF FindDocument(table, document_id) = {}
    THEN Answer(op, ExceptException(404), table, idx, id, {})
    ELSE IF ~urlOk
    THEN Answer(op, ExceptException(500), table, idx, id, {"get_file_url"})
    ELSE Answer(op, 200, table, idx, id, {})

\* the files a request may upload
Files ==
    {File(has_filename, extension, size, mime) :
        has_filename \in BOOLEAN, extension \in {"pdf", "txt", "xyz"},
        size \in {0, 1, max_file_size + 1},
        mime \in {"match", "mismatch", "raises"}}

\* the texts a document may hold
DocumentContents == {<<>>, ParsedText}

\* the ids a request may look up
LookupIds == DocumentIds \cup {"nonexistent-id"}

\* the Document table when the request arrives
DocumentTables ==
    {{}} \cup {{DocumentRow(d, content)} :
                  d \in DocumentIds, content \in DocumentContents}

\* the points of the documents of a table that were indexed at upload
DocumentIndexes(table) ==
    {{}} \cup {{DocumentPoint(1, row.id) : row \in table}}

\* the arguments of a request and the outcomes of the calls it makes
DocumentCall(op, document_id, file, extracted_text, outcomes, groq_api_key, completion) ==
    [op |-> op, document_id |-> document_id, file |-> file,
     extracted_text |-> extracted_text, storageOk |-> outcomes[1],
     extractOk |-> outcomes[2], commitOk |-> outcomes[3],
     upsertOk |-> outcomes[4], summaryOk |-> outcomes[5],
     urlOk |-> outcomes[6], groq_api_key |-> groq_api_key,
     completion |-> completion]

AllOk == <<TRUE, TRUE, TRUE, TRUE, TRUE, TRUE>>

\* outcomes where at most one of the calls fails
OneFailure == {AllOk} \cup {[AllOk EXCEPT ![i] = FALSE] : i \in 1..Len(AllOk)}

DocumentRequest(c) ==
    \/ \E file \in Files : \E text \in DocumentContents : \E o \in OneFailure :
          c = DocumentCall("upload_document", "", file, text, o, "gsk_key",
                           Completion("raises", None))
    \/ \E d \in LookupIds : \E o \in OneFailure :
       \E op \in {"get_document", "summarize_document", "download_document"} :
          c = DocumentCall(op, d, File(FALSE, "", 0, "raises"), <<>>, o,
                           "gsk_key", Completion("raises", None))
    \/ \E d \in LookupIds : \E o \in OneFailure : \E key \in {"", "gsk_key"} :
       \E m \in Completions(<<>>) :
          c = DocumentCall("generate_rules", d, File(FALSE, "", 0, "raises"),
                           <<>>, o, key, m)

InitDocuments ==
    /\ \E o \in InitializeOutcomes : client = o[1] /\ embedding_model = o[2]
    /\ db \in DocumentTables
    /\ index \in DocumentIndexes(db)
    /\ next_id = Cardinality(index) + 1
    /\ log = {}
    /\ ret = Result("init")
    /\ DocumentRequest(call)

\* a request answered: the table and the index take the values of the answer
Answered(a) ==
    /\ ret' = a.ret
    /\ db' = a.db
    /\ index' = a.index
    /\ next_id' = a.next_id
    /\ log' = a.log
    /\ UNCHANGED <<client, embedding_model, call>>

UploadDocument ==
    /\ ret.op = "init" /\ call.op = "upload_document"
    /\ Answered(upload_document(db, index, next_id, call.file,
                                call.extracted_text, call.storageOk,
                                call.extractOk, call.commitOk, call.upsertOk))

GetDocument ==
    /\ ret.op = "init" /\ call.op = "get_document"
    /\ Answered(get_document(db, index, next_id, call.document_id))

SummarizeDocument ==
    /\ ret.op = "init" /\ call.op = "summarize_document"
    /\ Answered(summarize_document(db, index, next_id, call.document_id,
                                   call.summaryOk, call.commitOk))

DownloadDocument ==
    /\ ret.op = "init" /\ call.op = "download_document"
    /\ Answered(download_document(db, index, next_id, call.document_id,
                                  call.urlOk))

\* POST /generate-rules/{document_id} on the Document table
GenerateRulesForDocument ==
    /\ ret.op = "init" /\ call.op = "generate_rules"
    /\ LET found == FindDocument(db, call.document_id)
           text == IF found = {} THEN <<>>
                   ELSE (CHOOSE row \in found : TRUE).content
           answer == generate_rules_endpoint(
                         RulesCall("generate_rules_endpoint", found # {},
                                   call.groq_api_key, TRUE, text,
                                   call.completion, call.commitOk))
       IN Answered(Answer("generate_rules", answer.status, db, index, next_id,
                          IF call.commitOk THEN {} ELSE {"commit"}))

NextDocuments ==
    \/ UploadDocument
    \/ GetDocument
    \/ SummarizeDocument
    \/ DownloadDocument
    \/ GenerateRulesForDocument

SpecDocuments == InitDocuments /\ [][NextDocuments]_vars

\* C19: an upload whose file has a disallowed extension or is empty is
\* answered 400, and leaves the Document table and the index as they were
\* (stated for named files within the size limit)
C19_InvalidUploadAnswers400 ==
    [][(/\ call.op = "upload_document"
        /\ call.file.has_filename /\ call.file.size <= max_file_size
        /\ \/ call.file.extension \notin allowed_extensions
           \/ call.file.size = 0) =>
           /\ ret'.status = 400
           /\ db' = db /\ index' = index]_vars

\* C20: a request that looks up a document id that is not in the Document
\* table (get document, summarize, generate-rules, download) is answered 404
C20_MissingDocumentAnswers404 ==
    (/\ ret.op \in {"get_document", "summarize_document", "generate_rules",
                    "download_document"}
     /\ FindDocument(db, call.document_id) = {}) =>
        ret.status = 404

----------------------------------------------------------------------------
(* POST /upload step by step: the statements of upload_document in the     *)
(* order the handler awaits them.  call.pc is the statement it is at       *)

\* the statements of the handler, in program order
UploadStepsIndexFirst ==
    <<"validate", "store", "extract", "index", "commit", "respond">>

UploadSteps == <<"validate", "store", "extract", "commit", "index", "respond">>

StepIndex(step) == CHOOSE i \in 1..Len(UploadSteps) : UploadSteps[i] = step

\* the statement after `step`; after the last one the handler has answered
StepAfter(step) ==
    IF StepIndex(step) = Len(UploadSteps) THEN "done"
    ELSE UploadSteps[StepIndex(step) + 1]

\* the record the handler adds to the Document table
UploadedRow == DocumentRow(NewDocumentId, call.extracted_text)

InitUpload ==
    /\ \E o \in InitializeOutcomes : client = o[1] /\ embedding_model = o[2]
    /\ db \in DocumentTables
    /\ index \in DocumentIndexes(db)
    /\ next_id = Cardinality(index) + 1
    /\ log = {}
    /\ ret = Result("init")
    /\ \E file \in Files : \E text \in DocumentContents : \E o \in OneFailure :
          call = [pc |-> UploadSteps[1]]
                 @@ DocumentCall("upload_document", "", file, text, o,
                                 "gsk_key", Completion("raises", None))

\* the handler goes on to its next statement
UploadGoesOn(step) ==
    /\ call' = [call EXCEPT !.pc = StepAfter(step)]
    /\ UNCHANGED ret

\* an exception reaches the except clause of the handler, which answers
UploadRaises(status_code, failed) ==
    /\ call' = [call EXCEPT !.pc = "done"]
    /\ ret' = [Result("upload_document") EXCEPT !.status = status_code]
    /\ log' = failed
    /\ UNCHANGED <<db, index, next_id>>

UploadValidate ==
    /\ call.pc = "validate"
    /\ IF ~validate_file(call.file).valid
       THEN UploadRaises(ExceptException(400), {})
       ELSE UploadGoesOn("validate") /\ UNCHANGED <<db, index, next_id, log>>
    /\ UNCHANGED <<client, embedding_model>>

UploadStore ==
    /\ call.pc = "store"
    /\ IF ~call.storageOk
       THEN UploadRaises(ExceptException(500), {"storage"})
       ELSE UploadGoesOn("store") /\ UNCHANGED <<db, index, next_id, log>>
    /\ UNCHANGED <<client, embedding_model>>

UploadExtract ==
    /\ call.pc = "extract"
    /\ IF ~call.extractOk
       THEN UploadRaises(500, {"extract_text"})
       ELSE UploadGoesOn("extract") /\ UNCHANGED <<db, index, next_id, log>>
    /\ UNCHANGED <<client, embedding_model>>

\* db.add(document); db.commit()
UploadCommit ==
    /\ call.pc = "commit"
    /\ IF ~call.commitOk
       THEN UploadRaises(500, {"commit"})
       ELSE /\ UploadGoesOn("commit")
            /\ db' = db \cup {UploadedRow}
            /\ UNCHANGED <<index, next_id, log>>
    /\ UNCHANGED <<client, embedding_model>>

\* await qdrant_service.add_document(...): its return value is not used
UploadIndex ==
    /\ call.pc = "index"
    /\ LET added == add_document(index, next_id, NewDocumentId, call.upsertOk)
       IN /\ index' = added.index
          /\ next_id' = added.next_id
          /\ log' = added.log
    /\ UploadGoesOn("index")
    /\ UNCHANGED <<client, embedding_model, db>>

\* return JSONResponse(status_code=201, ...)
UploadRespond ==
    /\ call.pc = "respond"
    /\ call' = [call EXCEPT !.pc = StepAfter("respond")]
    /\ ret' = [Result("upload_document") EXCEPT !.status = 201]
    /\ UNCHANGED <<client, embedding_model, db, index, next_id, log>>

NextUpload ==
    \/ UploadValidate
    \/ UploadStore
    \/ UploadExtract
    \/ UploadCommit
    \/ UploadIndex
    \/ UploadRespond

SpecUpload == InitUpload /\ [][NextUpload]_vars

\* the handler is past its indexing statement
IndexingAttempted(pc) ==
    pc = "done" \/ (pc # "index" /\ StepIndex(pc) > StepIndex("index"))

\* C21: within one upload the document record is committed before the
\* indexing attempt starts; the indexing attempt, whether it indexes, fails
\* or finds the service disabled, leaves the committed record in place; the
\* 201 answer is produced only after the indexing attempt has completed; and
\* a request that committed its record answers 201
C21_CommitIndexAnswer ==
    [][/\ (call.pc = "index" /\ call'.pc # "index") =>
             (UploadedRow \in db /\ db' = db)
       /\ (ret'.status = 201 /\ ret.status # 201) =>
             (IndexingAttempted(call.pc) /\ UploadedRow \in db')
       /\ (call'.pc = "done" /\ UploadedRow \in db') => ret'.status = 201]_vars

\* C21, its case: an upload answered 201 whose record is in the table while
\* the upsert of its point failed and the index holds no point for it
C21_Witness ==
    /\ call.op = "upload_document" /\ call.pc = "done"
    /\ ret.status = 201 /\ log = {"upsert"}
    /\ UploadedRow \in db
    /\ \A p \in index : p.document_id # NewDocumentId

----------------------------------------------------------------------------
(* QdrantService._ensure_collection_exists.  In these behaviours index is  *)
(* the collection itself: whether it exists and the payload indexes it has *)

\* runs of _ensure_collection_exists in one behaviour (one per process start)
MaxEnsureRuns == 2

\* the fields _create_payload_indexes indexes, in the order it creates them
PayloadFields == <<"type", "variable_code", "document_id">>

Collection(exists, payload_indexes) ==
    [exists |-> exists, payload_indexes |-> payload_indexes]

\* the create_payload_index calls of one try block.  recreate: what the
\* store answers for a field that is indexed already ("already exists": it
\* raises with that message; "ok": it returns).  failing: the field whose
\* creation raises another error, or "none"
RECURSIVE CreateIndexes(_, _, _, _)
CreateIndexes(fields, existing, recreate, failing) ==
    IF fields = <<>> THEN [payload_indexes |-> existing, log |-> {}]
    ELSE LET field_name == Head(fields) IN
         IF field_name = failing
         THEN [payload_indexes |-> existing, log |-> {"create_payload_index"}]
         ELSE IF field_name \in existing /\ recreate = "already exists"
         THEN [payload_indexes |-> existing, log |-> {}]
         ELSE CreateIndexes(Tail(fields), existing \cup {field_name},
                            recreate, failing)

_create_payload_indexes(coll, PAYLOAD_SCHEMA_AVAILABLE, recreate, failing) ==
    IF ~PAYLOAD_SCHEMA_AVAILABLE THEN [collection |-> coll, log |-> {}]
    ELSE LET created == CreateIndexes(PayloadFields, coll.payload_indexes,
                                      recreate, failing)
         IN [collection |-> Collection(coll.exists, created.payload_indexes),
             log |-> created.log]

\* listOk, createOk: get_collections and create_collection do not raise
_ensure_collection_exists(coll, listOk, createOk, PAYLOAD_SCHEMA_AVAILABLE, recreate, failing) ==
    IF ~listOk THEN [collection |-> coll, log |-> {"get_collections"}]
    ELSE IF ~coll.exists /\ ~createOk
    THEN [collection |-> coll, log |-> {"create_collection"}]
    ELSE _create_payload_indexes(Collection(TRUE, coll.payload_indexes),
                                 PAYLOAD_SCHEMA_AVAILABLE, recreate, failing)

AllPayloadFields == {PayloadFields[i] : i \in 1..Len(PayloadFields)}

\* the collection before the first run: absent, or present with some of the
\* payload indexes
Collections ==
    {Collection(FALSE, {})}
        \cup {Collection(TRUE, fields) : fields \in SUBSET AllPayloadFields}

InitCollection ==
    /\ client = TRUE /\ embedding_model = TRUE
    /\ db = [c \in Codes |-> NoRow]
    /\ index \in Collections
    /\ next_id = 1
    /\ ret = Result("init")
    /\ log = {}
    /\ \E listOk, createOk, available \in BOOLEAN :
       \E recreate \in {"already exists", "ok"} :
       \E failing \in AllPayloadFields \cup {"none"} :
          call = [op |-> "_ensure_collection_exists", runs |-> 0,
                  listOk |-> listOk, createOk |-> createOk,
                  PAYLOAD_SCHEMA_AVAILABLE |-> available,
                  recreate |-> recreate, failing |-> failing]

EnsureCollection ==
    /\ call.runs < MaxEnsureRuns
    /\ LET r == _ensure_collection_exists(index, call.listOk, call.createOk,
                                          call.PAYLOAD_SCHEMA_AVAILABLE,
                                          call.recreate, call.failing) IN
         /\ index' = r.collection
         /\ log' = r.log
    /\ ret' = Result("_ensure_collection_exists")
    /\ call' = [call EXCEPT !.runs = @ + 1]
    /\ UNCHANGED <<client, embedding_model, db, next_id>>

NextCollection == EnsureCollection

SpecCollection == InitCollection /\ [][NextCollection]_vars

\* a backend that is reachable, answers "already exists" for an index that
\* exists, and a client library that has PayloadSchemaType
ReachableBackend ==
    /\ call.listOk /\ call.createOk /\ call.failing = "none"
    /\ call.PAYLOAD_SCHEMA_AVAILABLE
    /\ call.recreate = "already exists"

\* C22: after _ensure_collection_exists returns against a reachable backend
\* the collection exists and has the payload indexes on type, variable_code
\* and document_id, whatever the collection was before (absent, or present
\* with any of the three indexes); a second run changes nothing
C22_EnsureProvisionsAll ==
    [][(ReachableBackend /\ call'.runs = call.runs + 1) =>
          /\ index'.exists
          /\ index'.payload_indexes = AllPayloadFields
          /\ call.runs >= 1 => index' = index]_vars

\* C22, the part that holds: against a reachable backend a run creates the
\* collection with all three indexes when the collection was absent, and a
\* second run leaves every collection as the first run left it
C22_SecondRunChangesNothing ==
    [][(ReachableBackend /\ call'.runs = call.runs + 1) =>
          /\ index'.exists
          /\ ~index.exists => index'.payload_indexes = AllPayloadFields
          /\ call.runs >= 1 => index' = index]_vars

----------------------------------------------------------------------------
(* Properties of force resync and of operation sequences *)

----------------------------------------------------------------------------
(* Sync and force resync step by step, in server processes that share the  *)
(* collection and the table.  Every remote call is one step; between two   *)
(* steps a process may crash or the other process may take a step.  The    *)
(* table does not change.  call.procs[p] holds the local variables of      *)
(* process p, call.overlapped whether two calls were ever under way at the *)
(* same time, call.started the number of calls started.                    *)

Procs == {1, 2}

\* calls started in one behaviour
MaxStarted == 3

\* points that may be created in one behaviour
MaxCreated == 4

Proc(op, pc, rows, codes, ids) ==
    [op |-> op, pc |-> pc, db_variables |-> rows,
     existing_variable_codes |-> codes, point_ids |-> ids, crashed_at |-> "",
     synced_count |-> 0, skipped_count |-> 0]

Running(proc) == proc.pc \notin {"idle", "done", "crashed"}

InitSteps ==
    /\ client = TRUE /\ embedding_model = TRUE
    /\ db \in Tables
    /\ index = {}
    /\ next_id = 1
    /\ ret = Result("init")
    /\ log = {}
    /\ call = [procs |-> [p \in Procs |-> Proc("none", "idle", <<>>, {}, {})],
               overlapped |-> FALSE, started |-> 0]

\* process p is at statement pc and goes to statement next with its local
\* variables as in proc
Goes(p, proc, next) ==
    call' = [call EXCEPT !.procs[p] = [proc EXCEPT !.pc = next]]

\* a request (or the start of the server) calls op in process p
Starts(p, op, pc) ==
    /\ ~Running(call.procs[p])
    /\ call.started < MaxStarted
    /\ call' = [procs |-> [call.procs EXCEPT ![p] = Proc(op, pc, <<>>, {}, {})],
                overlapped |-> call.overlapped
                                 \/ \E q \in Procs \ {p} : Running(call.procs[q]),
                started |-> call.started + 1]
    /\ UNCHANGED <<client, embedding_model, db, index, next_id, ret, log>>

SyncStart(p) == Starts(p, "sync", "query")

ForceResyncStart(p) == Starts(p, "force_resync", "delete_scroll")

\* _delete_all_variables_from_qdrant: client.scroll
StepDeleteScroll(p) ==
    LET proc == call.procs[p]
        point_ids == {point.id : point \in ScrollVariables(index)}
    IN /\ proc.pc = "delete_scroll"
       /\ Goes(p, [proc EXCEPT !.point_ids = point_ids],
               IF point_ids # {} THEN "delete" ELSE "query")
       /\ UNCHANGED <<client, embedding_model, db, index, next_id, ret, log>>

\* _delete_all_variables_from_qdrant: client.delete
StepDelete(p) ==
    LET proc == call.procs[p] IN
    /\ proc.pc = "delete"
    /\ index' = {point \in index : point.id \notin proc.point_ids}
    /\ Goes(p, proc, "query")
    /\ UNCHANGED <<client, embedding_model, db, next_id, ret, log>>

\* sync_variables_from_database: db.query(Variable).all()
StepQuery(p) ==
    LET proc == call.procs[p]
        rows == db_variables(db)
    IN /\ proc.pc = "query"
       /\ Goes(p, [proc EXCEPT !.db_variables = rows],
               IF Len(rows) = 0 THEN "return" ELSE "scroll")
       /\ UNCHANGED <<client, embedding_model, db, index, next_id, ret, log>>

\* sync_variables_from_database: _get_existing_variable_codes
StepScroll(p) ==
    LET proc == call.procs[p] IN
    /\ proc.pc = "scroll"
    /\ Goes(p, [proc EXCEPT !.existing_variable_codes =
                                _get_existing_variable_codes(index, TRUE)],
            "upsert")
    /\ UNCHANGED <<client, embedding_model, db, index, next_id, ret, log>>

\* sync_variables_from_database: the loop over db_variables and add_variables
StepUpsert(p) ==
    LET proc == call.procs[p]
        variables_to_sync ==
            SelectSeq(proc.db_variables,
                      LAMBDA r : r.variable_code \notin proc.existing_variable_codes)
        added ==
            IF variables_to_sync # <<>>
            THEN add_variables(index, next_id, variables_to_sync, TRUE)
            ELSE [ok |-> FALSE, index |-> index, next_id |-> next_id, log |-> {}]
    IN /\ proc.pc = "upsert"
       /\ added.next_id <= MaxCreated + 1
       /\ index' = added.index
       /\ next_id' = added.next_id
       /\ Goes(p, [proc EXCEPT
                     !.synced_count = IF added.ok THEN Len(variables_to_sync) ELSE 0,
                     !.skipped_count = Len(proc.db_variables) - Len(variables_to_sync)],
               "return")
       /\ UNCHANGED <<client, embedding_model, db, ret, log>>

\* sync_variables_from_database: return
StepReturn(p) ==
    LET proc == call.procs[p] IN
    /\ proc.pc = "return"
    /\ ret' = [SyncResult(TRUE, proc.synced_count, proc.skipped_count,
                          Len(proc.db_variables)) EXCEPT !.op = proc.op]
    /\ Goes(p, proc, "done")
    /\ UNCHANGED <<client, embedding_model, db, index, next_id, log>>

\* the process dies between two statements
StepCrash(p) ==
    LET proc == call.procs[p] IN
    /\ Running(proc)
    /\ Goes(p, [proc EXCEPT !.crashed_at = proc.pc], "crashed")
    /\ UNCHANGED <<client, embedding_model, db, index, next_id, ret, log>>

NextSteps ==
    \/ \E p \in Procs : SyncStart(p)
    \/ \E p \in Procs : ForceResyncStart(p)
    \/ \E p \in Procs : StepDeleteScroll(p)
    \/ \E p \in Procs : StepDelete(p)
    \/ \E p \in Procs : StepQuery(p)
    \/ \E p \in Procs : StepScroll(p)
    \/ \E p \in Procs : StepUpsert(p)
    \/ \E p \in Procs : StepReturn(p)
    \/ \E p \in Procs : StepCrash(p)

SpecSteps == InitSteps /\ [][NextSteps]_vars

\* the index holds exactly one variable point for every record with
\* non-blank searchable text, and no other variable point
OnePointPerRecord(idx, table) ==
    \A c \in Codes :
        Cardinality(PointsOf(idx, c)) =
            IF c \in NonBlankCodes(table) THEN 1 ELSE 0

C25_DuplicatesOnlyFromOverlap ==
    (\E c \in Codes : Cardinality(PointsOf(index, c)) > 1) => call.overlapped

\* C25, its case: two calls that overlapped have left two variable points
\* with the same code
C25_Witness ==
    /\ call.overlapped
    /\ \E c \in Codes : /\ db[c].present
                        /\ Cardinality(PointsOf(index, c)) > 1

----------------------------------------------------------------------------
(* The variables API with bulk create and with update, one request after  *)
(* another                                                                 *)

\* the lists of variables a bulk-create request may carry: two variables
\* with different codes, in either order
BulkLists ==
    { <<[variable_code |-> c1] @@ f1, [variable_code |-> c2] @@ f2>> :
        <<c1, c2>> \in {cs \in Codes \X Codes : cs[1] # cs[2]},
        <<f1, f2>> \in FieldValues \X FieldValues }

\* db.add_all(db_variables)
RECURSIVE add_all(_, _)
add_all(table, variables) ==
    IF variables = <<>> THEN table
    ELSE LET var == Head(variables) IN
         add_all([table EXCEPT ![var.variable_code] =
                      Row(Fields(var.variable_name, var.variable_description,
                                 var.des_var_eng))],
                 Tail(variables))

\* POST /variables/bulk-create.  dbOk: the commit does not raise
bulk_create_variables(variables, dbOk, upsertOk) ==
    IF ~dbOk
    THEN /\ ret' = [Result("bulk_create_variables") EXCEPT !.status = 500]
         /\ log' = {"commit"}
         /\ UNCHANGED <<db, index, next_id>>
    ELSE LET added == add_variables(index, next_id, variables, upsertOk)
         IN /\ IdsLeft(added.next_id)
            /\ db' = add_all(db, variables)
            /\ index' = added.index
            /\ next_id' = added.next_id
            /\ log' = added.log
            /\ ret' = [Result("bulk_create_variables") EXCEPT
                          !.status = 201, !.added = added.ok]

BulkCreateVariables ==
    /\ \E variables \in BulkLists, upsertOk \in StoreCall :
         \E dbOk \in (IF \E i \in 1..Len(variables) :
                            db[variables[i].variable_code].present
                      THEN {FALSE} ELSE BOOLEAN) :
            bulk_create_variables(variables, dbOk, upsertOk)
    /\ UNCHANGED <<client, embedding_model, call>>

\* PUT /variables/{variable_id} with new descriptive fields: the row is
\* written, the index is not touched.  call keeps the variable as updated
update_variable(c, f, dbOk) ==
    IF ~db[c].present
    THEN /\ ret' = [Result("update_variable") EXCEPT !.status = 404]
         /\ UNCHANGED <<db, call>>
    ELSE IF ~dbOk
    THEN /\ ret' = [Result("update_variable") EXCEPT !.status = 500]
         /\ UNCHANGED <<db, call>>
    ELSE /\ db' = [db EXCEPT ![c] = Row(f)]
         /\ ret' = [Result("update_variable") EXCEPT !.status = 200]
         /\ call' = [NoCall EXCEPT !.op = "update_variable",
                                   !.variables = <<[variable_code |-> c] @@ f>>]

UpdateVariable ==
    /\ \E c \in Codes, f \in FieldValues, dbOk \in BOOLEAN :
          update_variable(c, f, dbOk)
    /\ log' = {}
    /\ UNCHANGED <<client, embedding_model, index, next_id>>

\* create, bulk create, delete, sync and force resync
NextCatalog ==
    \/ CreateVariable
    \/ BulkCreateVariables
    \/ DeleteVariable
    \/ SyncVariables
    \/ ForceResync

SpecCatalog == Init /\ [][NextCatalog]_vars

\* create, update and sync
NextUpdate ==
    \/ CreateVariable
    \/ UpdateVariable
    \/ SyncVariables

SpecUpdate == Init /\ [][NextUpdate]_vars

\* C26: in every sequence of create, bulk create, delete, sync and force
\* resync, run one after another on a table in which every
\* variable_code is unique, the index never holds two variable points with
\* the same variable_code
C26_IndexCodesUnique ==
    \A c \in Codes : Cardinality(PointsOf(index, c)) <= 1

\* C27: whenever sync_variables_from_database returns success = true every
\* record with non-blank searchable text has a variable point with its code
\* in the index, and synced_count is the number of points the call added
C27_SuccessMeansIndexed ==
    [][(Available /\ ret'.op = "sync" /\ ret'.success) =>
          /\ NonBlankCodes(db) \subseteq IndexedCodes(index')
          /\ ret'.synced_count = Cardinality(index' \ index)]_vars

\* C28: after update_variable has changed the descriptive fields of a record
\* and sync_variables_from_database has then returned success, with no
\* remote call failing, the payload of every variable point with the
\* record's variable_code equals the record's current fields
C28_PayloadFresh ==
    [][(/\ Available
        /\ ret.op = "update_variable" /\ ret.status = 200
        /\ ret'.op = "sync" /\ ret'.success /\ log' = {}) =>
          LET var == call.variables[1] IN
          \A p \in PointsOf(index', var.variable_code) :
              p.fields = db[var.variable_code].fields]_vars

----------------------------------------------------------------------------
(* The fallback path of semantic_search against the filtered search *)

\* the answers a working filtered search could give to the call
WorkingFilteredAnswers ==
    FilteredSearch(index, call.sc, call.limit, call.score_threshold,
                   call.filter_type)

\* the points of every type that score at least the threshold
AboveThreshold ==
    {p \in index : call.sc[VectorOf(p)] >= call.score_threshold}

IsPrefix(s, t) == Len(s) <= Len(t) /\ SubSeq(t, 1, Len(s)) = s

\* the filtered search raised and the unfiltered search answered
FellBack == ret.op = "semantic_search" /\ log = {"filtered_search"}

\* C29: when the index-filtered search for a type fails, the unfiltered
\* search followed by the manual filtering returns a list that a working
\* index-filtered search for that type could have returned
C29_FallbackEqualsFiltered ==
    FellBack => ret.results \in WorkingFilteredAnswers

\* C29, amended: when the index-filtered search for a type fails, the
\* fallback returns the points of that type among the top `limit` points of
\* all types: a prefix of a list a working filtered search could have
\* returned, and the whole of it when no more than `limit` points of any
\* type score at least the threshold
C29_FallbackPrefixOfFiltered ==
    FellBack =>
        \E filtered \in WorkingFilteredAnswers :
            /\ IsPrefix(ret.results, filtered)
            /\ Cardinality(AboveThreshold) <= call.limit =>
                  ret.results = filtered

\* C29, its case: the fallback returned a result of the requested type, and
\* fewer results than any working filtered search would have, because a
\* point of another type took a place among the top `limit`
C29_Witness ==
    /\ FellBack
    /\ Len(ret.results) >= 1
    /\ \A filtered \in WorkingFilteredAnswers : Len(filtered) > Len(ret.results)

----------------------------------------------------------------------------
(* What sync and force resync leave alone *)

\* the points that are not variable points
OtherPoints(idx) == idx \ VariablePoints(idx)

\* C30: sync_variables_from_database and force_resync_all_variables never
\* create, change or delete a point that is not a variable point and never
\* write to the table of variables, whichever of their remote calls fail
C30_SyncLeavesDocumentsAndTable ==
    [][ret'.op \in {"sync", "force_resync"} =>
          /\ OtherPoints(index') = OtherPoints(index)
          /\ db' = db]_vars

\* C30, its case: a force resync on an index that holds a document point
\* has deleted variable points and created new ones
C30_Witness ==
    /\ ret.op = "force_resync" /\ ret.synced_count >= 1
    /\ \E p \in index : p.type = "document"
    /\ VariablePoints(index) # {}
    /\ next_id - 1 - Cardinality(VariablePoints(index))
           > Cardinality(OtherPoints(index))

====
